---------------------------- MODULE Spec2Model ----------------------------
(***************************************************************************)
(* A model of src/domainhunter.py: the PST scanner for sensitive           *)
(* information (KeywordManager, PSTScanner, main).                         *)
(*                                                                         *)
(* Text is a sequence of one-character strings.  Optional values           *)
(* (Python's None / a value) are sequences of length 0 or 1.               *)
(***************************************************************************)
EXTENDS Naturals, Sequences, FiniteSets

VARIABLES
    pc,                  \* position of the program
    custom,              \* the custom keyword source given to KeywordManager
    magic_available,     \* MAGIC_AVAILABLE (whether python-magic was imported)
    keyword_categories,  \* KeywordManager.keyword_categories (in dict order)
    compiled_patterns,   \* KeywordManager.compiled_patterns (in dict order)
    email_text,          \* process_mbox_file's email_text / scan_email's argument
    result,              \* what the last call of scan_email returned
    matches,             \* PSTScanner.matches
    mbox_lines,          \* the lines read so far from the current mbox file
    chunks,              \* the texts passed to scan_email for the current mbox file
    n_files,             \* number of mbox files the converter produced
    file_idx,            \* index of the mbox file being processed
    lines_read,          \* number of lines read from the mbox files so far
    expected,            \* what scan_email yields on the messages of the files read
    verified,            \* outcome of verify_pst_file
    scan_returned,       \* scan_pst_file has returned to main without raising
    save_calls,          \* number of calls of save_matches
    log,                 \* the error messages logged so far
    writes,              \* the contents written to sensitive_matches.json
    exit_status          \* exit status of the process (<<>> while running)

vars == <<pc, custom, magic_available, keyword_categories, compiled_patterns,
          email_text, result, matches, mbox_lines, chunks, n_files, file_idx,
          lines_read, expected, verified, scan_returned, save_calls, log, writes,
          exit_status>>

-----------------------------------------------------------------------------
(* Characters and text                                                     *)

LF == "\n"

None == <<>>

Some(v) == <<v>>

\* Variant: `is not None` in place of truthiness.
Truthy_NotNone(opt) == opt # None

\* Python truthiness of an Optional[str]: None and "" are both false.
Truthy(opt) == opt # None /\ opt[1] # <<>>

\* `opt or ""`
OrEmpty(opt) == IF Truthy(opt) THEN opt[1] ELSE <<>>

LowerTable == [A |-> "a", B |-> "b", C |-> "c", D |-> "d", E |-> "e", F |-> "f", G |-> "g", H |-> "h", I |-> "i", J |-> "j", K |-> "k", L |-> "l", M |-> "m", N |-> "n", O |-> "o", P |-> "p", Q |-> "q", R |-> "r", S |-> "s", T |-> "t", U |-> "u", V |-> "v", W |-> "w", X |-> "x", Y |-> "y", Z |-> "z"]

\* Case folding of re.IGNORECASE.
Lower(c) == IF c \in DOMAIN LowerTable THEN LowerTable[c] ELSE c

Digits == {"0", "1", "2", "3", "4", "5", "6", "7", "8", "9"}

\* The characters \w matches.
WordChars == DOMAIN LowerTable \cup {LowerTable[c] : c \in DOMAIN LowerTable} \cup Digits \cup {"_"}

\* The characters \s matches (and str.strip removes).
SpaceChars == {" ", "\t", "\n", "\r", "\f"}

IsWord(c) == c \in WordChars

\* The smallest member of a set of positions; 0 when there is none.
FirstIn(S) == IF S = {} THEN 0 ELSE CHOOSE j \in S : \A k \in S : j <= k

\* The literal lit occurs in text at position pos, ignoring case.
LitAt(text, pos, lit) ==
    /\ pos + Len(lit) - 1 <= Len(text)
    /\ \A k \in 1..Len(lit) : Lower(text[pos + k - 1]) = Lower(lit[k])

\* str.startswith (case-sensitive).
StartsWith(text, lit) ==
    /\ Len(lit) <= Len(text)
    /\ \A k \in 1..Len(lit) : text[k] = lit[k]

RECURSIVE Flatten(_)
\* The concatenation of a sequence of texts.
Flatten(ss) == IF ss = <<>> THEN <<>> ELSE Head(ss) \o Flatten(Tail(ss))

RECURSIVE Join(_, _)
\* sep.join(ss)
Join(ss, sep) ==
    IF ss = <<>> THEN <<>>
    ELSE IF Len(ss) = 1 THEN ss[1]
    ELSE ss[1] \o sep \o Join(Tail(ss), sep)

\* str.strip(): leading and trailing whitespace removed.
Strip(s) ==
    LET keep == {i \in 1..Len(s) : s[i] \notin SpaceChars}
        lo == FirstIn(keep)
        hi == IF keep = {} THEN 0 ELSE CHOOSE j \in keep : \A k \in keep : k <= j
    IN  IF keep = {} THEN <<>> ELSE SubSeq(s, lo, hi)

-----------------------------------------------------------------------------
(* Keyword patterns.  A keyword is a sequence of pattern elements: a       *)
(* literal character, or SEP for the optional separator class [_\s]? of    *)
(* the keyword table.  A compiled pattern also holds WB, the \b assertion. *)

SEP == "[_\\s]?"

WB == "\\b"

\* \b holds between pos-1 and pos: exactly one side is a word character.
AtBoundary(text, pos) ==
    LET before == pos > 1 /\ IsWord(text[pos - 1])
        after == pos <= Len(text) /\ IsWord(text[pos])
    IN  before # after

RECURSIVE MatchAt(_, _, _, _)
\* The pattern from element i on matches text from pos on: the position
\* after the match, or 0.  [_\s]? is greedy and backtracks.
MatchAt(pat, i, text, pos) ==
    IF i > Len(pat) THEN pos
    ELSE IF pat[i] = WB
         THEN IF AtBoundary(text, pos) THEN MatchAt(pat, i + 1, text, pos) ELSE 0
    ELSE IF pat[i] = SEP
         THEN LET taken == IF pos <= Len(text) /\ (text[pos] = "_" \/ text[pos] \in SpaceChars)
                           THEN MatchAt(pat, i + 1, text, pos + 1)
                           ELSE 0
              IN  IF taken # 0 THEN taken ELSE MatchAt(pat, i + 1, text, pos)
    ELSE IF pos <= Len(text) /\ Lower(text[pos]) = Lower(pat[i])
         THEN MatchAt(pat, i + 1, text, pos + 1)
         ELSE 0

RECURSIVE FindAllFrom(_, _, _)
\* pattern.findall(text): the non-overlapping matches, leftmost first.
FindAllFrom(pat, text, pos) ==
    IF pos > Len(text) + 1 THEN <<>>
    ELSE LET e == MatchAt(pat, 1, text, pos)
         IN  IF e = 0 THEN FindAllFrom(pat, text, pos + 1)
             ELSE <<SubSeq(text, pos, e - 1)>>
                  \o FindAllFrom(pat, text, IF e = pos THEN pos + 1 ELSE e)

\* Variant: pattern.search, the first match only.
findall_FirstOnly(pat, text) ==
    LET all == FindAllFrom(pat, text, 1)
    IN  IF all = <<>> THEN <<>> ELSE <<all[1]>>

findall(pat, text) == FindAllFrom(pat, text, 1)

-----------------------------------------------------------------------------
(* KeywordManager                                                          *)

K_ssn == <<"s", "s", "n">>

K_po_box == <<"p", "o", SEP, "b", "o", "x">>

K_cvv == <<"c", "v", "v">>

K_cvc == <<"c", "v", "c">>

K_nda == <<"n", "d", "a">>

\* The built-in table of __init__, in dict order, restricted to the rows and
\* keywords that can occur in the texts the model draws (no other keyword of
\* the source table occurs in them, so no other pattern can match).
DefaultCategories ==
    << [category |-> "personal_identifiers", keywords |-> <<K_ssn>>, is_list |-> TRUE],
       [category |-> "contact_information", keywords |-> <<K_po_box>>, is_list |-> TRUE],
       [category |-> "financial", keywords |-> <<K_cvv, K_cvc>>, is_list |-> TRUE],
       [category |-> "business_confidential", keywords |-> <<K_nda>>, is_list |-> TRUE] >>

\* Position of a category in the table; 0 when it is not a key.
IndexOf(cats, name) == FirstIn({i \in 1..Len(cats) : cats[i].category = name})

\* Variant: the list of a known category is replaced, not extended.
MergeEntry_Overwrite(cats, e) ==
    LET idx == FirstIn({i \in 1..Len(cats) : cats[i].category = e.category})
    IN  IF idx # 0
        THEN IF e.is_list
             THEN [cats |-> [cats EXCEPT ![idx].keywords = e.keywords], raised |-> FALSE]
             ELSE [cats |-> cats, raised |-> TRUE]
        ELSE [cats |-> Append(cats, e), raised |-> FALSE]

\* One iteration of the loop over custom_categories.items(): extend the
\* list of a known category (list.extend raises TypeError on a value that
\* is not iterable), or bind a new category to the value as it is.
MergeEntry(cats, e) ==
    LET idx == IndexOf(cats, e.category)
    IN  IF idx # 0
        THEN IF e.is_list
             THEN [cats |-> [cats EXCEPT ![idx].keywords = @ \o e.keywords], raised |-> FALSE]
             ELSE [cats |-> cats, raised |-> TRUE]
        ELSE [cats |-> Append(cats, e), raised |-> FALSE]

RECURSIVE MergeEntries(_, _, _)
\* The loop of _load_custom_keywords: it stops at the first entry that raises,
\* leaving the entries merged before it in place.
MergeEntries(cats, entries, i) ==
    IF i > Len(entries) THEN [cats |-> cats, raised |-> FALSE]
    ELSE LET step == MergeEntry(cats, entries[i])
         IN  IF step.raised THEN step ELSE MergeEntries(step.cats, entries, i + 1)

\* _load_custom_keywords: open and json.load may raise, and so may .items()
\* on a JSON value that is no object; every exception is caught and logged.
LoadCustomKeywords(cats, src) ==
    IF src.kind \in {"missing", "invalid_json", "not_object"}
    THEN [cats |-> cats, raised |-> TRUE]
    ELSE MergeEntries(cats, src.entries, 1)

\* re.compile(rf"\b{keyword}\b", re.IGNORECASE)
CompileKeyword(keyword) == <<WB>> \o keyword \o <<WB>>

\* _compile_patterns: one pattern per keyword, categories in dict order.
\* Iterating over a value that is not iterable raises TypeError.
CompilePatterns(cats) ==
    IF \E i \in 1..Len(cats) : ~cats[i].is_list
    THEN [raised |-> TRUE, compiled |-> <<>>]
    ELSE [raised |-> FALSE,
          compiled |-> [i \in 1..Len(cats) |->
                          [category |-> cats[i].category,
                           patterns |-> [k \in 1..Len(cats[i].keywords) |->
                                           CompileKeyword(cats[i].keywords[k])]]]]

\* KeywordManager.__init__
KeywordManager(src) ==
    LET loaded == IF src.kind = "none"
                  THEN [cats |-> DefaultCategories, raised |-> FALSE]
                  ELSE LoadCustomKeywords(DefaultCategories, src)
        comp == CompilePatterns(loaded.cats)
    IN  [raised |-> comp.raised,
         logged |-> loaded.raised,
         keyword_categories |-> loaded.cats,
         compiled_patterns |-> comp.compiled]

-----------------------------------------------------------------------------
(* PSTScanner.extract_email_content                                        *)

SubjectLit == <<"s", "u", "b", "j", "e", "c", "t", ":", " ">>

MessageIdLit == <<"m", "e", "s", "s", "a", "g", "e", "-", "i", "d", ":", " ", "<">>

DateLit == <<"d", "a", "t", "e", ":", " ">>

SentLit == <<"s", "e", "n", "t", ":", " ">>

PlainLit == <<"c", "o", "n", "t", "e", "n", "t", "-", "t", "y", "p", "e", ":", " ", "t", "e", "x", "t", "/", "p", "l", "a", "i", "n">>

HtmlLit == <<"c", "o", "n", "t", "e", "n", "t", "-", "t", "y", "p", "e", ":", " ", "t", "e", "x", "t", "/", "h", "t", "m", "l">>

\* First newline at or after position q; 0 when there is none.
NextLF(text, q) == FirstIn({j \in q..Len(text) : text[j] = LF})

\* First blank-line separator "\n\n" at or after position q; 0 when none.
NextBlank(text, q) ==
    FirstIn({j \in q..Len(text) - 1 : text[j] = LF /\ text[j + 1] = LF})

\* (.*?)\n after a case-insensitive header literal, searched from the left:
\* the rest of the line the literal is on (the literal may start anywhere).
HeaderValue(text, lits) ==
    LET starts == {p \in 1..Len(text) :
                     \E l \in lits : LitAt(text, p, l) /\ NextLF(text, p + Len(l)) # 0}
        p == FirstIn(starts)
        l == CHOOSE l \in lits : LitAt(text, p, l)
        q == p + Len(l)
    IN  IF starts = {} THEN None
        ELSE Some(SubSeq(text, q, NextLF(text, q) - 1))

\* (?:Message-ID|Message-Id): <(.+?)> with re.IGNORECASE
ExtractEmailId(text) ==
    LET n == Len(MessageIdLit)
        Close(q) == FirstIn({e \in q + 1..Len(text) :
                               text[e] = ">" /\ \A m \in q..e - 1 : text[m] # LF})
        starts == {p \in 1..Len(text) : LitAt(text, p, MessageIdLit) /\ Close(p + n) # 0}
        p == FirstIn(starts)
    IN  IF starts = {} THEN None
        ELSE Some(SubSeq(text, p + n, Close(p + n) - 1))

\* (.*?)(?=\n\n|$) with re.DOTALL from position g: up to the next blank-line
\* separator, the end of the text, or the newline that ends the text.
BodyGroup(text, g) ==
    LET n == Len(text)
        stops == {e \in g..n + 1 :
                    \/ e = n + 1
                    \/ e = n /\ text[n] = LF
                    \/ e < n /\ text[e] = LF /\ text[e + 1] = LF}
    IN  SubSeq(text, g, FirstIn(stops) - 1)

\* The body: after a text/plain or text/html content-type header and a blank
\* line; when that finds nothing, after the first blank line of the text.
ExtractBody(text) ==
    LET typed == {p \in 1..Len(text) :
                    \E l \in {PlainLit, HtmlLit} :
                        LitAt(text, p, l) /\ NextBlank(text, p + Len(l)) # 0}
        p == FirstIn(typed)
        l == CHOOSE l \in {PlainLit, HtmlLit} : LitAt(text, p, l)
    IN  IF typed # {}
        THEN Some(BodyGroup(text, NextBlank(text, p + Len(l)) + 2))
        ELSE IF NextBlank(text, 1) # 0
             THEN Some(BodyGroup(text, NextBlank(text, 1) + 2))
             ELSE None

extract_email_content(text) ==
    [email_id |-> ExtractEmailId(text),
     subject |-> HeaderValue(text, {SubjectLit}),
     body |-> ExtractBody(text),
     timestamp |-> HeaderValue(text, {DateLit, SentLit})]

-----------------------------------------------------------------------------
(* PSTScanner.scan_email                                                   *)

\* Variant: only the subject is looked at.
Scannable_SubjectOnly(fields) == fields.subject # None /\ fields.subject[1] # <<>>

\* `if not any([subject, body]): return None`
Scannable(fields) == Truthy(fields.subject) \/ Truthy(fields.body)

RECURSIVE ScanPatterns(_, _, _, _)
\* The inner loop: every pattern of a category is applied; each one with
\* matches marks the category and appends " ".join(matches) + "\n".
ScanPatterns(patterns, k, text, acc) ==
    IF k > Len(patterns) THEN acc
    ELSE LET found == findall(patterns[k], text)
         IN  ScanPatterns(patterns, k + 1, text,
                 IF found # <<>>
                 THEN [hit |-> TRUE, context |-> acc.context \o Join(found, <<" ">>) \o <<LF>>]
                 ELSE acc)

RECURSIVE ScanCategories(_, _, _, _)
\* The outer loop over compiled_patterns.items().
ScanCategories(compiled, i, text, acc) ==
    IF i > Len(compiled) THEN acc
    ELSE LET r == ScanPatterns(compiled[i].patterns, 1, text,
                               [hit |-> FALSE, context |-> acc.context])
         IN  ScanCategories(compiled, i + 1, text,
                 [matched_keywords |-> IF r.hit
                                       THEN acc.matched_keywords \cup {compiled[i].category}
                                       ELSE acc.matched_keywords,
                  context |-> r.context])

\* scan_email: None, or the SensitiveMatch of the message.
scan_email(compiled, text) ==
    LET fields == extract_email_content(text)
        scan == ScanCategories(compiled, 1, text, [matched_keywords |-> {}, context |-> <<>>])
    IN  IF ~Scannable(fields) THEN None
        ELSE IF scan.matched_keywords # {}
             THEN Some([email_id |-> OrEmpty(fields.email_id),
                        subject |-> OrEmpty(fields.subject),
                        matched_keywords |-> scan.matched_keywords,
                        context |-> Strip(scan.context),
                        timestamp |-> OrEmpty(fields.timestamp)])
             ELSE None

-----------------------------------------------------------------------------
(* Bounds and the inputs drawn                                             *)

MaxMsgLines == 3

MaxEntries == 2

MaxCustomKw == 2

MaxFiles == 2

\* Lines read from the mbox files in one run.
MaxLines == 3

SeqsUpTo(S, n) == UNION {[1..k -> S] : k \in 0..n}

K_foo == <<"f", "o", "o">>

L_From == <<"F", "r", "o", "m", " ", "a", "\n">>

L_FromSubj == <<"F", "r", "o", "m", " ", "b", " ", "S", "u", "b", "j", "e", "c", "t", ":", " ", "n", "d", "a", "\n">>

L_Quoted == <<">", "F", "r", "o", "m", " ", "s", "s", "n", "\n">>

L_SubjCvv == <<"S", "u", "b", "j", "e", "c", "t", ":", " ", "c", "v", "v", "\n">>

L_SubjEmpty == <<"S", "u", "b", "j", "e", "c", "t", ":", " ", "\n">>

L_SubjFoo == <<"S", "u", "b", "j", "e", "c", "t", ":", " ", "f", "o", "o", "\n">>

L_SubjXfoo == <<"S", "u", "b", "j", "e", "c", "t", ":", " ", "x", "f", "o", "o", "\n">>

L_Foo == <<"f", "o", "o">>

L_Hdr == <<"X", ":", " ", "s", "s", "n", " ", "C", "V", "V", "\n">>

L_Blank == <<"\n">>

L_Body == <<"c", "v", "v", " ", "f", "o", "o", " ", "c", "v", "c", "\n">>

L_Embedded == <<"x", "c", "v", "v", " ", "p", "o", "_", "b", "o", "x", "\n">>

L_Date == <<"D", "a", "t", "e", ":", " ", "d", "\n">>

L_Id == <<"M", "e", "s", "s", "a", "g", "e", "-", "I", "D", ":", " ", "<", "i", ">", "\n">>

L_Plain == <<"C", "o", "n", "t", "e", "n", "t", "-", "T", "y", "p", "e", ":", " ", "t", "e", "x", "t", "/", "p", "l", "a", "i", "n", "\n">>

L_Tail == <<"n", "d", "a">>

\* The lines messages are built from when scan_email is checked alone.
ScanLines == {L_SubjCvv, L_SubjEmpty, L_Hdr, L_Blank, L_Body, L_Embedded,
              L_Date, L_Id, L_Plain, L_Tail}

ScanTexts == {Flatten(ls) : ls \in SeqsUpTo(ScanLines, MaxMsgLines)}

\* The lines an mbox file is read from; L_Tail has no newline and can only
\* be the last line of a file.
MboxLines == {L_From, L_FromSubj, L_Quoted, L_SubjCvv, L_Tail}

NoSource == [kind |-> "none", entries |-> <<>>]

FailedSources == {[kind |-> k, entries |-> <<>>] : k \in {"missing", "invalid_json", "not_object"}}

CustomCategoryNames == {"financial", "extra"}

\* A JSON value of the custom mapping: a list of keywords, or a value that
\* is not iterable (a number).
CustomEntries ==
    {[category |-> c, keywords |-> ks, is_list |-> TRUE] :
        c \in CustomCategoryNames, ks \in SeqsUpTo({K_foo, K_cvv}, MaxCustomKw)}
    \cup {[category |-> c, keywords |-> <<>>, is_list |-> FALSE] : c \in CustomCategoryNames}

\* A JSON object has each key once.
ObjectSources ==
    {[kind |-> "object", entries |-> es] :
        es \in {x \in SeqsUpTo(CustomEntries, MaxEntries) :
                   \A i, j \in 1..Len(x) : x[i].category = x[j].category => i = j}}

KwSources == {NoSource} \cup FailedSources \cup ObjectSources

KwTexts == {L_SubjFoo, L_SubjXfoo, L_Foo}

FooSource == [kind |-> "object",
              entries |-> <<[category |-> "financial", keywords |-> <<K_foo>>, is_list |-> TRUE]>>]

ScalarSource == [kind |-> "object",
                 entries |-> <<[category |-> "extra", keywords |-> <<>>, is_list |-> FALSE]>>]

ScanSources == {NoSource, FooSource}

RunSources == {NoSource, ScalarSource}

-----------------------------------------------------------------------------
(* KeywordManager and scan_email applied to drawn inputs                   *)

InitWith(sources, texts, start) ==
    /\ pc = start
    /\ custom \in sources
    /\ magic_available \in (IF start = "main" THEN BOOLEAN ELSE {FALSE})
    /\ keyword_categories = <<>>
    /\ compiled_patterns = <<>>
    /\ email_text \in texts
    /\ result = None
    /\ matches = <<>>
    /\ mbox_lines = <<>>
    /\ chunks = <<>>
    /\ n_files = 0
    /\ file_idx = 0
    /\ lines_read = 0
    /\ expected = <<>>
    /\ verified = "no"
    /\ scan_returned = FALSE
    /\ save_calls = 0
    /\ log = <<>>
    /\ writes = <<>>
    /\ exit_status = None

\* What constructing the KeywordManager logs.
LoadLog(km) == IF km.logged THEN <<"Error loading custom keywords">> ELSE <<>>

\* KeywordManager(custom_keywords_file)
NewKeywordManager ==
    /\ pc = "new"
    /\ LET km == KeywordManager(custom)
       IN  /\ keyword_categories' = km.keyword_categories
           /\ compiled_patterns' = km.compiled_patterns
           /\ log' = log \o LoadLog(km)
           /\ pc' = IF km.raised THEN "raised" ELSE "ready"
    /\ UNCHANGED <<custom, magic_available, email_text, result, matches, mbox_lines,
                   chunks, n_files, file_idx, expected, verified, writes, exit_status, lines_read, scan_returned, save_calls>>

\* Variant: the match is put at the front of the list.
ScanAndAppend_Front(compiled, ms, text) == scan_email(compiled, text) \o ms

\* `match = self.scan_email(email_text)` and `if match: self.matches.append(match)`
ScanAndAppend(compiled, ms, text) == ms \o scan_email(compiled, text)

ScanEmailCall ==
    /\ pc = "ready"
    /\ result' = scan_email(compiled_patterns, email_text)
    /\ matches' = ScanAndAppend(compiled_patterns, matches, email_text)
    /\ pc' = "scanned"
    /\ UNCHANGED <<custom, magic_available, keyword_categories, compiled_patterns,
                   email_text, mbox_lines, chunks, n_files, file_idx, expected,
                   verified, log, writes, exit_status, lines_read, scan_returned, save_calls>>

PureNext == NewKeywordManager \/ ScanEmailCall

InitScan == InitWith(ScanSources, ScanTexts, "new")

SpecScan == InitScan /\ [][PureNext]_vars

InitKw == InitWith(KwSources, KwTexts, "new")

SpecKw == InitKw /\ [][PureNext]_vars

-----------------------------------------------------------------------------
(* The run: main, scan_pst_file, process_mbox_file, save_matches           *)

FromLit == <<"F", "r", "o", "m", " ">>

\* A line of a text file ends with its newline, or is the last line.
EndsWithLF(line) == line # <<>> /\ line[Len(line)] = LF

\* The messages of an mbox text, as the format defines them: a message
\* starts at the first line and at every line beginning with "From ".
MessageStarts(lines) == {i \in 1..Len(lines) : i = 1 \/ StartsWith(lines[i], FromLit)}

Messages(lines) ==
    LET S == MessageStarts(lines)
        start(k) == CHOOSE s \in S : Cardinality({t \in S : t < s}) = k - 1
        stop(k) == IF k = Cardinality(S) THEN Len(lines) ELSE start(k + 1) - 1
    IN  [k \in 1..Cardinality(S) |-> Flatten(SubSeq(lines, start(k), stop(k)))]

\* What scan_email returns on the messages of an mbox text, in file order.
ExpectedMatches(compiled, lines) ==
    LET ms == Messages(lines)
    IN  Flatten([k \in 1..Len(ms) |-> scan_email(compiled, ms[k])])

\* Variant: the handler of main logs and the process ends with status 0.
Fatal_ExitZero(msgs) ==
    /\ log' = log \o msgs \o <<"Fatal error">>
    /\ exit_status' = Some(0)
    /\ pc' = "exited"

\* An exception that reaches main: `except Exception` logs "Fatal error"
\* and calls sys.exit(1).
Fatal(msgs) ==
    /\ log' = log \o msgs \o <<"Fatal error">>
    /\ exit_status' = Some(1)
    /\ pc' = "exited"

\* main: scanner = PSTScanner(custom_keywords_file=...)
MainConstruct ==
    /\ pc = "main"
    /\ LET km == KeywordManager(custom)
       IN  /\ keyword_categories' = km.keyword_categories
           /\ compiled_patterns' = km.compiled_patterns
           /\ IF km.raised
              THEN Fatal(LoadLog(km))
              ELSE /\ log' = log \o LoadLog(km)
                   /\ pc' = "verify"
                   /\ UNCHANGED exit_status
    /\ UNCHANGED <<custom, magic_available, email_text, result, matches, mbox_lines,
                   chunks, n_files, file_idx, expected, verified, writes, lines_read, scan_returned, save_calls>>

\* verify_pst_file: the file exists, and (with python-magic) is an Outlook file.
verify_pst_file(exists, outlook) ==
    IF ~exists THEN [ok |-> FALSE, logged |-> <<"File not found">>]
    ELSE IF magic_available /\ ~outlook THEN [ok |-> FALSE, logged |-> <<"Invalid file type">>]
    ELSE [ok |-> TRUE, logged |-> <<>>]

\* Where scan_pst_file goes when verify_pst_file returned False: it returns
\* to main, which goes on to save_matches.
AfterFailedVerify == "save"

\* scan_pst_file: `if not self.verify_pst_file(pst_file): return`
VerifyPst ==
    /\ pc = "verify"
    /\ \E exists \in BOOLEAN, outlook \in BOOLEAN :
          LET v == verify_pst_file(exists, outlook)
          IN  /\ log' = log \o v.logged
              /\ verified' = IF v.ok THEN "ok" ELSE "failed"
              /\ pc' = IF v.ok THEN "convert" ELSE AfterFailedVerify
              /\ scan_returned' = ~v.ok
    /\ UNCHANGED <<custom, magic_available, keyword_categories, compiled_patterns,
                   email_text, result, matches, mbox_lines, chunks, n_files, file_idx,
                   expected, writes, exit_status, lines_read, save_calls>>

\* scan_pst_file: mkdir, readpst and the glob for *.mbox.  Each failure is
\* logged by one of the two handlers and raised again.
Convert ==
    /\ pc = "convert"
    /\ \/ /\ Fatal(<<"Error running readpst">>)          \* CalledProcessError
          /\ UNCHANGED <<n_files, file_idx>>
       \/ /\ Fatal(<<"Error scanning PST file">>)        \* mkdir raised, readpst could
          /\ UNCHANGED <<n_files, file_idx>>             \* not be run, or no mbox file
       \/ \E n \in 1..MaxFiles :
             /\ n_files' = n
             /\ file_idx' = 1
             /\ pc' = "open"
             /\ UNCHANGED <<log, exit_status>>
    /\ UNCHANGED <<custom, magic_available, keyword_categories, compiled_patterns,
                   email_text, result, matches, mbox_lines, chunks, expected, verified,
                   writes, lines_read, scan_returned, save_calls>>

\* Variant: process_mbox_file logs the error and does not raise it again.
MboxFailure_Swallowed ==
    /\ log' = log \o <<"Error processing mbox file">>
    /\ pc' = "file_done"
    /\ UNCHANGED exit_status

\* process_mbox_file raised: it logs and raises, scan_pst_file logs and
\* raises, main ends the process.
MboxFailure ==
    Fatal(<<"Error processing mbox file", "Error scanning PST file">>)

\* process_mbox_file: open(mbox_file) and email_text = ""
OpenMbox ==
    /\ pc = "open"
    /\ \/ /\ pc' = "read"
          /\ email_text' = <<>>
          /\ mbox_lines' = <<>>
          /\ chunks' = <<>>
          /\ UNCHANGED <<log, exit_status>>
       \/ /\ MboxFailure
          /\ UNCHANGED <<email_text, mbox_lines, chunks>>
    /\ UNCHANGED <<custom, magic_available, keyword_categories, compiled_patterns,
                   result, matches, n_files, file_idx, expected, verified, writes, lines_read, scan_returned, save_calls>>

\* A file can hold another line after the lines read: it is empty so far,
\* or its last line was ended by a newline.
MoreToRead(lines) == IF lines = <<>> THEN TRUE ELSE EndsWithLF(lines[Len(lines)])

\* Variant: without the test `if email_text`.
Delimits_NoPendingTest(line, pending) == StartsWith(line, FromLit)

\* The line starts a new message and one is pending: scan the pending one.
Delimits(line, pending) == StartsWith(line, FromLit) /\ pending # <<>>

\* process_mbox_file: one iteration of `for line in f`
ReadLine ==
    /\ pc = "read"
    /\ lines_read < MaxLines
    /\ MoreToRead(mbox_lines)
    /\ \E line \in MboxLines :
          /\ mbox_lines' = Append(mbox_lines, line)
          /\ lines_read' = lines_read + 1
          /\ IF Delimits(line, email_text)
             THEN /\ result' = scan_email(compiled_patterns, email_text)
                  /\ matches' = ScanAndAppend(compiled_patterns, matches, email_text)
                  /\ chunks' = Append(chunks, email_text)
                  /\ email_text' = line
             ELSE /\ email_text' = email_text \o line
                  /\ UNCHANGED <<result, matches, chunks>>
    /\ UNCHANGED <<pc, custom, magic_available, keyword_categories, compiled_patterns,
                   n_files, file_idx, expected, verified, log, writes, exit_status, scan_returned, save_calls>>

\* process_mbox_file: reading the file raises
ReadFails ==
    /\ pc = "read"
    /\ MboxFailure
    /\ UNCHANGED <<custom, magic_available, keyword_categories, compiled_patterns,
                   email_text, result, matches, mbox_lines, chunks, n_files, file_idx,
                   expected, verified, writes, lines_read, scan_returned, save_calls>>

\* process_mbox_file: the end of the file, "Process the last email"
EndOfFile ==
    /\ pc = "read"
    /\ IF email_text # <<>>
       THEN /\ result' = scan_email(compiled_patterns, email_text)
            /\ matches' = ScanAndAppend(compiled_patterns, matches, email_text)
            /\ chunks' = Append(chunks, email_text)
       ELSE UNCHANGED <<result, matches, chunks>>
    /\ expected' = expected \o ExpectedMatches(compiled_patterns, mbox_lines)
    /\ pc' = "file_done"
    /\ UNCHANGED <<custom, magic_available, keyword_categories, compiled_patterns,
                   email_text, mbox_lines, n_files, file_idx, verified, log, writes,
                   exit_status, lines_read, scan_returned, save_calls>>

\* scan_pst_file: `for mbox_file in mbox_files`, then the return to main
NextFile ==
    /\ pc = "file_done"
    /\ IF file_idx < n_files
       THEN /\ file_idx' = file_idx + 1
            /\ pc' = "open"
            /\ UNCHANGED scan_returned
       ELSE /\ pc' = "save"
            /\ scan_returned' = TRUE
            /\ UNCHANGED file_idx
    /\ UNCHANGED <<custom, magic_available, keyword_categories, compiled_patterns,
                   email_text, result, matches, mbox_lines, chunks, n_files, expected,
                   verified, log, writes, exit_status, lines_read, save_calls>>

\* main: scanner.save_matches(), then the normal end of the process
SaveMatches ==
    /\ pc = "save"
    /\ save_calls' = save_calls + 1
    /\ \/ /\ writes' = Append(writes, matches)
          /\ exit_status' = Some(0)
          /\ pc' = "exited"
          /\ UNCHANGED log
       \/ /\ Fatal(<<"Error saving matches">>)           \* mkdir, open or dump raised
          /\ UNCHANGED writes
    /\ UNCHANGED <<custom, magic_available, keyword_categories, compiled_patterns,
                   email_text, result, matches, mbox_lines, chunks, n_files, file_idx,
                   expected, verified, lines_read, scan_returned>>

Init == InitWith(RunSources, {<<>>}, "main")

Next ==
    \/ MainConstruct
    \/ VerifyPst
    \/ Convert
    \/ OpenMbox
    \/ ReadLine
    \/ ReadFails
    \/ EndOfFile
    \/ NextFile
    \/ SaveMatches

Spec == Init /\ [][Next]_vars

-----------------------------------------------------------------------------
(* Properties                                                              *)

Logged(m) == \E i \in 1..Len(log) : log[i] = m

\* The pattern has an occurrence somewhere in the text.
Occurs(pat, text) == \E pos \in 1..Len(text) + 1 : MatchAt(pat, 1, text, pos) # 0

\* Some pattern of some category has an occurrence in the text.
AnyOccurrence(compiled, text) ==
    \E i \in 1..Len(compiled) : \E k \in 1..Len(compiled[i].patterns) :
        Occurs(compiled[i].patterns[k], text)

\* The extracted field is absent or empty.
Blank(opt) == opt = None \/ opt = Some(<<>>)

\* The message has a non-empty extracted subject or a non-empty extracted body.
SubjectOrBody(text) ==
    LET f == extract_email_content(text)
    IN  ~Blank(f.subject) \/ ~Blank(f.body)

\* C1 as stated: scan_email returns a SensitiveMatch if and only if some
\* keyword pattern of some category occurs in the raw message text.
C1_MatchIffOccurrence ==
    pc = "scanned" =>
        (result # None <=> AnyOccurrence(compiled_patterns, email_text))

\* C1 amended: scan_email returns a SensitiveMatch if and only if the message
\* has a non-empty extracted subject or body and some keyword pattern of some
\* category occurs in the raw message text.
C1_MatchIffScannableOccurrence ==
    pc = "scanned" =>
        (result # None <=>
            SubjectOrBody(email_text) /\ AnyOccurrence(compiled_patterns, email_text))

\* A scanned message with a body but no subject, whose keyword sits in a
\* header line, and which yields a match.
C1_Witness ==
    /\ pc = "scanned"
    /\ result # None
    /\ Blank(extract_email_content(email_text).subject)
    /\ AnyOccurrence(compiled_patterns, email_text)

\* C7: a message whose extracted subject is absent or empty and whose
\* extracted body is absent or empty yields nothing, and nothing is appended
\* to matches, whatever keywords its header lines hold.
C7_NoSubjectNoBodyNoMatch ==
    (pc = "scanned" /\ ~SubjectOrBody(email_text)) =>
        (result = None /\ matches = <<>>)

\* A scanned message without subject and body whose text holds a keyword.
C7_Witness ==
    /\ pc = "scanned"
    /\ ~SubjectOrBody(email_text)
    /\ AnyOccurrence(compiled_patterns, email_text)

\* All patterns, in category-then-pattern iteration order.
AllPatterns(compiled) == Flatten([i \in 1..Len(compiled) |-> compiled[i].patterns])

\* One line per pattern with occurrences: its matched substrings joined by
\* single spaces; the lines joined by newlines and trimmed.
ContextOf(compiled, text) ==
    LET Hit(p) == FindAllFrom(p, text, 1) # <<>>
        hits == SelectSeq(AllPatterns(compiled), Hit)
    IN  Strip(Join([k \in 1..Len(hits) |-> Join(FindAllFrom(hits[k], text, 1), <<" ">>)],
                   <<LF>>))

CategoriesOf(compiled, text) ==
    {compiled[i].category : i \in {j \in 1..Len(compiled) :
        \E k \in 1..Len(compiled[j].patterns) : Occurs(compiled[j].patterns[k], text)}}

ValueOrEmpty(opt) == IF opt = None THEN <<>> ELSE opt[1]

\* C9: for a message that passes the subject/body precondition every pattern
\* of every category is applied: the matched categories are exactly those
\* with an occurrence, the context has one line per pattern with occurrences
\* in iteration order, and absent fields are emitted as empty strings.
C9_ExhaustiveScan ==
    (pc = "scanned" /\ SubjectOrBody(email_text)) =>
        LET f == extract_email_content(email_text)
            cats == CategoriesOf(compiled_patterns, email_text)
        IN  IF cats = {} THEN result = None
            ELSE result = Some([email_id |-> ValueOrEmpty(f.email_id),
                                subject |-> ValueOrEmpty(f.subject),
                                matched_keywords |-> cats,
                                context |-> ContextOf(compiled_patterns, email_text),
                                timestamp |-> ValueOrEmpty(f.timestamp)])

\* A match with two categories, a pattern that occurs twice, and no
\* identifier and timestamp in the message.
C9_Witness ==
    /\ pc = "scanned"
    /\ result # None
    /\ Cardinality(result[1].matched_keywords) >= 2
    /\ \E p \in {CompileKeyword(K_cvv)} : Len(FindAllFrom(p, email_text, 1)) >= 2
    /\ extract_email_content(email_text).email_id = None
    /\ result[1].email_id = <<>>

\* The keyword as re.compile(rf"\b{keyword}\b") presents it.
Bounded(keyword) == <<WB>> \o keyword \o <<WB>>

\* One pattern per keyword of a category table, in order.
PatternsFor(cats) ==
    [i \in 1..Len(cats) |->
        [category |-> cats[i].category,
         patterns |-> [k \in 1..Len(cats[i].keywords) |-> Bounded(cats[i].keywords[k])]]]

Constructed == pc \in {"ready", "raised", "scanned"}

\* C4 as stated: when loading or parsing the custom keyword source fails at
\* any point, the construction does not fail and keyword_categories and
\* compiled_patterns are exactly those of the built-in defaults.
C4_DefaultsOnLoadFailure ==
    (Constructed /\ Logged("Error loading custom keywords")) =>
        /\ pc # "raised"
        /\ keyword_categories = DefaultCategories
        /\ compiled_patterns = PatternsFor(DefaultCategories)

DefaultNames == {DefaultCategories[i].category : i \in 1..Len(DefaultCategories)}

\* A custom mapping from category names to lists of keywords.
ListMapping(src) ==
    src.kind = "object" /\ \A i \in 1..Len(src.entries) : src.entries[i].is_list

\* The custom keywords the mapping gives for a category (none when it does
\* not name the category).
CustomFor(src, name) ==
    LET named == {i \in 1..Len(src.entries) : src.entries[i].category = name}
    IN  IF named = {} THEN <<>> ELSE src.entries[CHOOSE i \in named : TRUE].keywords

\* The merge of C8: known categories are appended to (duplicates kept), new
\* ones are added with exactly the custom list, the other categories are
\* unchanged, and there is one compiled pattern per keyword.
MergedAsStated ==
    LET IsNew(e) == e.category \notin DefaultNames
        new == SelectSeq(custom.entries, IsNew)
        n == Len(DefaultCategories)
    IN  /\ pc # "raised"
        /\ ~Logged("Error loading custom keywords")
        /\ Len(keyword_categories) = n + Len(new)
        /\ \A i \in 1..n :
              /\ keyword_categories[i].category = DefaultCategories[i].category
              /\ keyword_categories[i].keywords =
                    DefaultCategories[i].keywords \o CustomFor(custom, DefaultCategories[i].category)
        /\ \A j \in 1..Len(new) :
              /\ keyword_categories[n + j].category = new[j].category
              /\ keyword_categories[n + j].keywords = new[j].keywords
        /\ compiled_patterns = PatternsFor(keyword_categories)

\* The custom keywords (entry, position) that occur in the text as whole words.
CustomWordsIn(src, text) ==
    UNION {{<<i, k>> : k \in {j \in 1..Len(src.entries[i].keywords) :
                                Occurs(Bounded(src.entries[i].keywords[j]), text)}} :
           i \in 1..Len(src.entries)}

\* C8 as stated: the merge, and a message containing a custom keyword of
\* category C as a whole word matches C.
C8_MergeAndMatch ==
    (Constructed /\ ListMapping(custom)) =>
        /\ MergedAsStated
        /\ pc = "scanned" =>
              \A w \in CustomWordsIn(custom, email_text) :
                  /\ result # None
                  /\ custom.entries[w[1]].category \in result[1].matched_keywords

\* C8 amended: the merge, and a message that has a non-empty extracted
\* subject or body and contains a custom keyword of category C as a whole
\* word matches C.
C8_MergeAndScannableMatch ==
    (Constructed /\ ListMapping(custom)) =>
        /\ MergedAsStated
        /\ (pc = "scanned" /\ SubjectOrBody(email_text)) =>
              \A w \in CustomWordsIn(custom, email_text) :
                  /\ result # None
                  /\ custom.entries[w[1]].category \in result[1].matched_keywords

\* A mapping that appends two keywords, one of them a duplicate of a
\* default, to a known category and adds a new category; the subject of the
\* message is the custom keyword and the message matches both categories.
C8_Witness ==
    /\ pc = "scanned"
    /\ ListMapping(custom)
    /\ Len(custom.entries) = 2
    /\ \E i \in 1..2 : custom.entries[i] = [category |-> "financial", keywords |-> <<K_cvv, K_foo>>, is_list |-> TRUE]
    /\ \E i \in 1..2 : custom.entries[i] = [category |-> "extra", keywords |-> <<K_foo>>, is_list |-> TRUE]
    /\ email_text = L_SubjFoo
    /\ result # None
    /\ result[1].matched_keywords = {"financial", "extra"}

\* C2 as stated: when verify_pst_file fails, an error is logged, no result
\* file is written and the process exits with a non-zero status.
C2_FailedVerifyIsFatal ==
    (verified = "failed" /\ pc = "exited") =>
        /\ Logged("File not found") \/ Logged("Invalid file type")
        /\ writes = <<>>
        /\ exit_status = Some(1)

\* C3 as stated: with several mailbox files, a failure in one of them does
\* not end the run: the run goes on to save_matches, which writes the
\* accumulated matches, and the run is no fatal error.
C3_MailboxFailureNotFatal ==
    (n_files >= 2 /\ Logged("Error processing mbox file")) =>
        /\ ~Logged("Fatal error")
        /\ pc = "exited" => (writes = <<matches>> /\ exit_status = Some(0))

\* C3 amended: a failure in one mailbox file is logged and raised again: it
\* ends the whole run as a fatal error with exit status 1, the remaining
\* mailbox files are not processed and save_matches is not called.
C3_MailboxFailureIsFatal ==
    Logged("Error processing mbox file") =>
        /\ Logged("Error scanning PST file")
        /\ Logged("Fatal error")
        /\ pc = "exited"
        /\ exit_status = Some(1)
        /\ ~scan_returned
        /\ save_calls = 0
        /\ writes = <<>>

\* The first of two mailbox files failed after a match was appended.
C3_Witness ==
    /\ n_files = 2
    /\ file_idx = 1
    /\ Logged("Error processing mbox file")
    /\ matches # <<>>
    /\ pc = "exited"

\* The lines of the current mbox file that begin with "From ".
DelimiterLines == {i \in 1..Len(mbox_lines) : StartsWith(mbox_lines[i], FromLit)}

\* C5: an mbox text with n delimiter lines gives n chunks when its first
\* line is a delimiter (or it is empty) and n+1 chunks otherwise; every chunk
\* after the leading one starts with its delimiter line, no chunk is empty,
\* and the chunks concatenated in order are the text.
C5_Chunks ==
    pc = "file_done" =>
        LET n == Cardinality(DelimiterLines)
        IN  /\ Len(chunks) = IF mbox_lines = <<>> \/ 1 \in DelimiterLines THEN n ELSE n + 1
            /\ \A k \in 1..Len(chunks) : chunks[k] # <<>>
            /\ \A k \in 2..Len(chunks) : StartsWith(chunks[k], FromLit)
            /\ Flatten(chunks) = Flatten(mbox_lines)
            /\ (n = 0 /\ mbox_lines # <<>>) => chunks = <<Flatten(mbox_lines)>>

\* A file with content before its first delimiter line and a line that
\* holds "From " without beginning with it.
C5_Witness ==
    /\ pc = "file_done"
    /\ Len(mbox_lines) = 3
    /\ Cardinality(DelimiterLines) = 1
    /\ Len(chunks) = 2
    /\ \E i \in 1..3 : mbox_lines[i] = L_Quoted

\* C6: after a run that completed over all mailbox files, matches holds, in
\* file order, exactly the SensitiveMatch of every message for which
\* scan_email returns one (the last message of each file included).
C6_MatchesAreTheMessagesThatMatch ==
    (verified = "ok" /\ (pc = "save" \/ (pc = "exited" /\ scan_returned))) =>
        matches = expected

\* One file gave two different matches, and a second file was read.
C6_Witness ==
    /\ pc = "save"
    /\ n_files = 2
    /\ Len(matches) = 2
    /\ matches[1].subject = <<"c", "v", "v">>
    /\ matches[2].subject = <<"n", "d", "a">>
    /\ Len(chunks) = 1

\* scan_pst_file raised: one of its two handlers logged the error.
ScanRaised == Logged("Error scanning PST file") \/ Logged("Error running readpst")

\* C10, the part on order and on a scan that raises: save_matches is called
\* only after scan_pst_file returned normally; when the converter fails,
\* gives no mbox file, or a mailbox raises, the process exits with status 1
\* and nothing is written, whatever matches holds.
OrderAndRaise ==
    /\ save_calls > 0 => scan_returned
    /\ ScanRaised =>
          /\ pc = "exited"
          /\ exit_status = Some(1)
          /\ save_calls = 0
          /\ writes = <<>>

\* C10 as stated: in addition, when scan_pst_file returns normally the result
\* file is written exactly once and the exit status is 0.
C10_SaveOnlyAfterScan ==
    /\ OrderAndRaise
    /\ (pc = "exited" /\ scan_returned) =>
          (writes = <<matches>> /\ exit_status = Some(0))

\* C10 amended: in addition, when scan_pst_file returns normally
\* save_matches is called exactly once; when it succeeds the result file is
\* written exactly once and the exit status is 0 (also with no matches), and
\* when writing fails nothing is written and the exit status is 1.
C10_SaveOnceAfterScan ==
    /\ OrderAndRaise
    /\ (pc = "exited" /\ scan_returned) =>
          /\ save_calls = 1
          /\ \/ writes = <<matches>> /\ exit_status = Some(0) /\ ~Logged("Fatal error")
             \/ /\ writes = <<>> /\ exit_status = Some(1)
                /\ Logged("Error saving matches") /\ Logged("Fatal error")

\* A mailbox raised after a match was appended: the match is not persisted.
C10_Witness ==
    /\ pc = "exited"
    /\ ScanRaised
    /\ matches # <<>>
    /\ writes = <<>>
    /\ exit_status = Some(1)

=============================================================================
